---- MODULE Spec2Model ----
(***************************************************************************)
(* Model of the aggregation and conflict-detection engine of auto-flavor   *)
(* (internal/aggregator/aggregator.go, internal/signals/types.go).         *)
(*                                                                         *)
(* Timestamps are whole days; a time.Time zero value is ZeroTime.          *)
(* Confidence scores (float64 in the source) are kept in hundredths, so    *)
(* 0.95 is 95 and the ratio test second/top >= threshold is compared as    *)
(* second * 100 >= threshold * top.                                        *)
(* A Go map is a function from its keys to its values; the order in which  *)
(* a range statement visits it is chosen nondeterministically.             *)
(***************************************************************************)
EXTENDS Integers, Sequences, FiniteSets, TLC

VARIABLES sigs, config, now, grouped, returned, cohort, scored, before,
          pipe, det, db

vars == <<sigs, config, now, grouped, returned, cohort, scored, before,
          pipe, det, db>>

(***************************************************************************)
(* Bounds of the model.                                                    *)
(***************************************************************************)
MaxLen == 3

MaxCohort == 11

(***************************************************************************)
(* internal/signals/types.go                                               *)
(***************************************************************************)
StrengthExplicit == "explicit"

StrengthInferred == "inferred"

\* January 1 of year 1, some 730000 days before the days of the model: the
\* zero time.Time is older than any StaleDays window.
ZeroTime == -730000

Sig(category, title, description, strength, timestamp) ==
    [Category |-> category, Title |-> title, Description |-> description,
     Strength |-> strength, Timestamp |-> timestamp]

\* The signals a producer may hand over: two preference identities, two
\* stated values each, explicit and inferred, observed on days 0, 10 and 12.
Signal ==
    { Sig("tooling", "pkg-mgr", "pnpm", StrengthExplicit, 0),
      Sig("tooling", "pkg-mgr", "pnpm", StrengthExplicit, 10),
      Sig("tooling", "pkg-mgr", "npm", StrengthInferred, 12),
      Sig("tooling", "pkg-mgr", "npm", StrengthInferred, 0),
      Sig("tooling", "pkg-mgr", "npm", StrengthExplicit, 10),
      Sig("code_style", "indent", "tabs", StrengthExplicit, 10),
      Sig("code_style", "indent", "tabs", StrengthInferred, 0),
      Sig("code_style", "indent", "spaces", StrengthInferred, 12) }

Inputs == UNION { [1..n -> Signal] : n \in 0..MaxLen }

Nows == {17, 42}

ZeroTimeRange == [Start |-> ZeroTime, End |-> ZeroTime]

(***************************************************************************)
(* Config and DefaultConfig                                                *)
(***************************************************************************)
DefaultConfig ==
    [MinSignalCount |-> 1, ConflictThreshold |-> 30,
     RecentDays |-> 7, StaleDays |-> 30]

Configs ==
    { [DefaultConfig EXCEPT !.MinSignalCount = m] : m \in {1, 2} }

(***************************************************************************)
(* sort.Slice / sort.Float64s on the short slices of the model: the        *)
(* insertion sort the library runs below its 12-element cutoff.  less is   *)
(* key[a] > key[b].                                                        *)
(***************************************************************************)
Swap(data, i, j) == [data EXCEPT ![i] = data[j], ![j] = data[i]]

RECURSIVE insertAt(_, _, _)
insertAt(data, j, key) ==
    IF j > 1 /\ key[data[j]] > key[data[j - 1]]
    THEN insertAt(Swap(data, j, j - 1), j - 1, key)
    ELSE data

RECURSIVE insertionSort(_, _, _)
insertionSort(data, i, key) ==
    IF i > Len(data) THEN data
    ELSE insertionSort(insertAt(data, i, key), i + 1, key)

sortSlice(data, key) == insertionSort(data, 2, key)

Range(s) == { s[i] : i \in DOMAIN s }

ByTimestampDesc(s) == [x \in Range(s) |-> x.Timestamp]

(***************************************************************************)
(* Go maps                                                                 *)
(***************************************************************************)
EmptyMap == [k \in {} |-> <<>>]

\* mutant: groups[key] = []Signal{sig}, the earlier signals of the key are lost
MapAppend_overwrite(m, k, v) ==
    [x \in DOMAIN m \cup {k} |-> IF x = k THEN <<v>> ELSE m[x]]

MapAppend(m, k, v) ==
    IF k \in DOMAIN m
    THEN [m EXCEPT ![k] = Append(@, v)]
    ELSE [x \in DOMAIN m \cup {k} |-> IF x = k THEN <<v>> ELSE m[x]]

\* the orders in which a range statement may visit the keys S
Orders(S) ==
    { o \in [1..Cardinality(S) -> S] : \A e \in S : \E i \in DOMAIN o : o[i] = e }

\* the orders in which a range statement may visit map m
MapOrders(m) == Orders(DOMAIN m)

(***************************************************************************)
(* Aggregator.groupSignals                                                 *)
(***************************************************************************)
GroupKey(sig) == sig.Category \o "::" \o sig.Title

RECURSIVE groupSignalsFrom(_, _, _)
groupSignalsFrom(s, i, groups) ==
    IF i > Len(s) THEN groups
    ELSE groupSignalsFrom(s, i + 1, MapAppend(groups, GroupKey(s[i]), s[i]))

groupSignals(s) == groupSignalsFrom(s, 1, EmptyMap)

(***************************************************************************)
(* Aggregator.groupByDescription                                           *)
(***************************************************************************)
RECURSIVE groupByDescriptionFrom(_, _, _)
groupByDescriptionFrom(s, i, groups) ==
    IF i > Len(s) THEN groups
    ELSE groupByDescriptionFrom(s, i + 1, MapAppend(groups, s[i].Description, s[i]))

groupByDescription(s) == groupByDescriptionFrom(s, 1, EmptyMap)

(***************************************************************************)
(* Scorer: frequencyToConfidence, recencyModifier, calculateGroupScore     *)
(***************************************************************************)
\* mutant: the two middle buckets are exchanged
frequencyToConfidence_swapped(count) ==
    IF count >= 11 THEN 85
    ELSE IF count >= 6 THEN 50
    ELSE IF count >= 3 THEN 70
    ELSE 30

frequencyToConfidence(count) ==
    IF count >= 11 THEN 85
    ELSE IF count >= 6 THEN 70
    ELSE IF count >= 3 THEN 50
    ELSE 30

\* mutant: a signal exactly RecentDays old no longer counts as recent
recencyModifier_strict(cfg, nw, timestamp) ==
    LET daysSince == nw - timestamp
    IN  IF daysSince < cfg.RecentDays THEN 5
        ELSE IF daysSince >= cfg.StaleDays THEN -10
        ELSE 0

recencyModifier(cfg, nw, timestamp) ==
    LET daysSince == nw - timestamp
    IN  IF daysSince <= cfg.RecentDays THEN 5
        ELSE IF daysSince >= cfg.StaleDays THEN -10
        ELSE 0

RECURSIVE mostRecentFrom(_, _, _)
mostRecentFrom(s, i, mostRecent) ==
    IF i > Len(s) THEN mostRecent
    ELSE mostRecentFrom(s, i + 1,
            IF s[i].Timestamp > mostRecent THEN s[i].Timestamp ELSE mostRecent)

\* mutant: an explicit signal sets the base below every frequency bucket
calculateGroupScore_lowExplicit(cfg, nw, s) ==
    LET count == Len(s)
        hasExplicit == \E i \in DOMAIN s : s[i].Strength = StrengthExplicit
        baseConfidence == IF hasExplicit THEN 25 ELSE frequencyToConfidence(count)
        mostRecent == mostRecentFrom(s, 1, ZeroTime)
        confidence == baseConfidence + recencyModifier(cfg, nw, mostRecent)
    IN  IF confidence > 100 THEN 100
        ELSE IF confidence < 10 THEN 10
        ELSE confidence

calculateGroupScore(cfg, nw, s) ==
    LET count == Len(s)
        hasExplicit == \E i \in DOMAIN s : s[i].Strength = StrengthExplicit
        baseConfidence == IF hasExplicit THEN 95 ELSE frequencyToConfidence(count)
        mostRecent == mostRecentFrom(s, 1, ZeroTime)
        confidence == baseConfidence + recencyModifier(cfg, nw, mostRecent)
    IN  IF confidence > 100 THEN 100
        ELSE IF confidence < 10 THEN 10
        ELSE confidence

(***************************************************************************)
(* Aggregator.hasConflict                                                  *)
(***************************************************************************)
\* mutant: the ratio must exceed the threshold strictly
hasConflict_strict(cfg, nw, descGroups, dOrder) ==
    LET scores == [i \in DOMAIN dOrder |->
                      calculateGroupScore(cfg, nw, descGroups[dOrder[i]])]
        sorted == sortSlice(scores, [x \in Range(scores) |-> 0 - x])
    IN  /\ Len(sorted) >= 2
        /\ sorted[Len(sorted)] # 0
        /\ sorted[Len(sorted) - 1] * 100
              > cfg.ConflictThreshold * sorted[Len(sorted)]

hasConflict(cfg, nw, descGroups, dOrder) ==
    IF Cardinality(DOMAIN descGroups) <= 1 THEN FALSE
    ELSE
        LET visit == dOrder
            scores == [i \in DOMAIN visit |->
                          calculateGroupScore(cfg, nw, descGroups[visit[i]])]
            \* sort.Float64s: ascending
            sorted == sortSlice(scores, [x \in Range(scores) |-> 0 - x])
        IN  IF Len(sorted) < 2 THEN FALSE
            ELSE LET topScore == sorted[Len(sorted)]
                     secondScore == sorted[Len(sorted) - 1]
                 IN  IF topScore = 0 THEN FALSE
                     ELSE secondScore * 100 >= cfg.ConflictThreshold * topScore

(***************************************************************************)
(* Aggregator.buildPreference                                              *)
(***************************************************************************)
\* mutant: the group is not sorted before its ends are read
buildPreference_unsorted(cfg, nw, s) ==
    [Category |-> s[1].Category,
     Title |-> s[1].Title,
     Description |-> s[1].Description,
     Confidence |-> calculateGroupScore(cfg, nw, s),
     SignalCount |-> Len(s),
     FirstSeen |-> s[Len(s)].Timestamp,
     LastSeen |-> s[1].Timestamp]

buildPreference(cfg, nw, s) ==
    LET sorted == sortSlice(s, ByTimestampDesc(s))
        mostRecent == sorted[1]
        oldest == sorted[Len(sorted)]
    IN  [Category |-> mostRecent.Category,
         Title |-> mostRecent.Title,
         Description |-> mostRecent.Description,
         Confidence |-> calculateGroupScore(cfg, nw, sorted),
         SignalCount |-> Len(sorted),
         FirstSeen |-> oldest.Timestamp,
         LastSeen |-> mostRecent.Timestamp]

(***************************************************************************)
(* Aggregator.buildConflict                                                *)
(***************************************************************************)
\* mutant: a cohort is not sorted before its first signal is read
RECURSIVE conflictValuesFrom_unsortedCohort(_, _, _, _, _, _)
conflictValuesFrom_unsortedCohort(cfg, nw, descGroups, visit, i, values) ==
    IF i > Len(visit) THEN values
    ELSE
        LET s == descGroups[visit[i]]
        IN  conflictValuesFrom_unsortedCohort(cfg, nw, descGroups, visit, i + 1,
                Append(values,
                       [Description |-> visit[i],
                        Timestamp |-> s[1].Timestamp,
                        SignalCount |-> Len(s),
                        Strength |-> calculateGroupScore(cfg, nw, s)]))

RECURSIVE conflictValuesFrom(_, _, _, _, _, _)
conflictValuesFrom(cfg, nw, descGroups, visit, i, values) ==
    IF i > Len(visit) THEN values
    ELSE
        LET desc == visit[i]
            s == descGroups[desc]
        IN  IF Len(s) = 0
            THEN conflictValuesFrom(cfg, nw, descGroups, visit, i + 1, values)
            ELSE
                LET sorted == sortSlice(s, ByTimestampDesc(s))
                IN  conflictValuesFrom(cfg, nw, descGroups, visit, i + 1,
                        Append(values,
                               [Description |-> desc,
                                Timestamp |-> sorted[1].Timestamp,
                                SignalCount |-> Len(sorted),
                                Strength |-> calculateGroupScore(cfg, nw, sorted)]))

\* mutant: the values stay in the order the map was visited
buildConflict_unsorted(cfg, nw, category, title, descGroups, dOrder) ==
    [Category |-> category,
     Title |-> title,
     Values |-> conflictValuesFrom(cfg, nw, descGroups, dOrder, 1, <<>>)]

buildConflict(cfg, nw, category, title, descGroups, dOrder) ==
    LET values == conflictValuesFrom(cfg, nw, descGroups, dOrder, 1, <<>>)
    IN  [Category |-> category,
         Title |-> title,
         Values |-> sortSlice(values, ByTimestampDesc(values))]

(***************************************************************************)
(* Aggregator.aggregateGroup                                               *)
(***************************************************************************)
NoResult == [kind |-> "nil"]

\* mutant: without a conflict the Preference is built from one cohort only
aggregateGroup_oneCohort(cfg, nw, s, dOrder) ==
    IF Len(s) < cfg.MinSignalCount THEN NoResult
    ELSE
        LET descGroups == groupByDescription(s)
        IN  IF Cardinality(DOMAIN descGroups) > 1
               /\ hasConflict(cfg, nw, descGroups, dOrder)
            THEN [kind |-> "conflict",
                  conflict |-> buildConflict(cfg, nw, s[1].Category, s[1].Title,
                                             descGroups, dOrder)]
            ELSE [kind |-> "pref",
                  pref |-> buildPreference(cfg, nw, descGroups[dOrder[1]])]

aggregateGroup(cfg, nw, s, dOrder) ==
    IF Len(s) < cfg.MinSignalCount THEN NoResult
    ELSE
        LET descGroups == groupByDescription(s)
        IN  IF Cardinality(DOMAIN descGroups) > 1
               /\ hasConflict(cfg, nw, descGroups, dOrder)
            THEN [kind |-> "conflict",
                  conflict |-> buildConflict(cfg, nw, s[1].Category, s[1].Title,
                                             descGroups, dOrder)]
            ELSE [kind |-> "pref", pref |-> buildPreference(cfg, nw, s)]

(***************************************************************************)
(* Aggregator.sortByConfidence                                             *)
(***************************************************************************)
\* mutant: the Preferences are returned in the order they were appended
sortByConfidence_none(profile) == profile

sortByConfidence(profile) ==
    [profile EXCEPT !.Preferences =
        sortSlice(@, [p \in Range(@) |-> p.Confidence])]

(***************************************************************************)
(* Aggregator.Aggregate                                                    *)
(***************************************************************************)
\* mutant: a group in conflict is also given a Preference
RECURSIVE aggregateGroupsFrom_both(_, _, _, _, _, _, _)
aggregateGroupsFrom_both(cfg, nw, groups, visit, dOrders, i, profile) ==
    IF i > Len(visit) THEN profile
    ELSE
        LET r == aggregateGroup(cfg, nw, groups[visit[i]], dOrders[visit[i]])
            next ==
                IF r.kind = "conflict"
                THEN [profile EXCEPT
                        !.Conflicts = Append(@, r.conflict),
                        !.Preferences =
                            Append(@, buildPreference(cfg, nw, groups[visit[i]]))]
                ELSE IF r.kind = "pref"
                THEN [profile EXCEPT !.Preferences = Append(@, r.pref)]
                ELSE profile
        IN  aggregateGroupsFrom_both(cfg, nw, groups, visit, dOrders, i + 1, next)

RECURSIVE aggregateGroupsFrom(_, _, _, _, _, _, _)
aggregateGroupsFrom(cfg, nw, groups, visit, dOrders, i, profile) ==
    IF i > Len(visit) THEN profile
    ELSE
        LET r == aggregateGroup(cfg, nw, groups[visit[i]], dOrders[visit[i]])
            next ==
                IF r.kind = "conflict"
                THEN [profile EXCEPT !.Conflicts = Append(@, r.conflict)]
                ELSE IF r.kind = "pref"
                THEN [profile EXCEPT !.Preferences = Append(@, r.pref)]
                ELSE profile
        IN  aggregateGroupsFrom(cfg, nw, groups, visit, dOrders, i + 1, next)

\* mutant: without signals the range is the Unix epoch, not the zero value
TimeRangeOf_epoch(s) ==
    IF Len(s) > 0
    THEN [Start |-> s[1].Timestamp, End |-> s[Len(s)].Timestamp]
    ELSE [Start |-> 0, End |-> 0]

TimeRangeOf(s) ==
    IF Len(s) > 0
    THEN [Start |-> s[1].Timestamp, End |-> s[Len(s)].Timestamp]
    ELSE ZeroTimeRange

AggregateResult(cfg, nw, s, groups, gOrder, dOrders) ==
    LET profile == [CreatedAt |-> nw,
                    AnalyzedMessages |-> Len(s),
                    TimeRange |-> TimeRangeOf(s),
                    Preferences |-> <<>>,
                    Conflicts |-> <<>>]
    IN  sortByConfidence(
            aggregateGroupsFrom(cfg, nw, groups, gOrder, dOrders, 1, profile))

(***************************************************************************)
(* State machine: an Aggregator built by NewAggregator(config) at time     *)
(* now, a caller holding the slice sigs, and the profiles returned by the  *)
(* caller's successive Aggregate(sigs) calls, of which the model keeps    *)
(* the latest and the one before it.                                       *)
(***************************************************************************)
\* one visiting order of the description map of every group
DescOrders(groups) ==
    LET ordersOf(k) == MapOrders(groupByDescription(groups[k]))
    IN  { f \in [DOMAIN groups -> UNION { ordersOf(k) : k \in DOMAIN groups }] :
            \A k \in DOMAIN groups : f[k] \in ordersOf(k) }

KeepLast(history, profile) ==
    IF history = <<>> THEN <<profile>>
    ELSE <<history[Len(history)], profile>>

Init ==
    /\ sigs \in Inputs
    /\ config \in Configs
    /\ now \in Nows
    /\ grouped = EmptyMap
    /\ returned = <<>>
    /\ cohort = <<>>
    /\ scored = <<>>
    /\ before = <<>>
    /\ pipe = <<>>
    /\ det = <<>>
    /\ db = <<>>

\* The caller's slice when the run has returned.  groupSignals and
\* groupByDescription append every Signal by value to slices that append
\* allocates, and the sort.Slice calls of buildPreference and buildConflict
\* permute those slices, so the caller's backing array is never written.
\* mutant: the slice that buildPreference sorts shares the caller's array
sigsAfterRun_shared(s) == sortSlice(s, ByTimestampDesc(s))

sigsAfterRun(s) == s

\* mutant: the clock is read again when the run ends
Aggregate_rereadsNow ==
    /\ LET groups == groupSignals(sigs)
       IN  \E gOrder \in MapOrders(groups) :
           \E dOrders \in DescOrders(groups) :
              /\ grouped' = groups
              /\ returned' = KeepLast(returned,
                    AggregateResult(config, now, sigs, groups, gOrder, dOrders))
    /\ now' \in Nows
    /\ sigs' = sigsAfterRun(sigs)
    /\ UNCHANGED <<config, cohort, scored, before, pipe, det, db>>

Aggregate ==
    /\ LET groups == groupSignals(sigs)
       IN  \E gOrder \in MapOrders(groups) :
           \E dOrders \in DescOrders(groups) :
              /\ grouped' = groups
              /\ returned' = KeepLast(returned,
                    AggregateResult(config, now, sigs, groups, gOrder, dOrders))
    /\ sigs' = sigsAfterRun(sigs)
    /\ UNCHANGED <<config, now, cohort, scored, before, pipe, det, db>>

Next == Aggregate

Spec == Init /\ [][Next]_vars

(***************************************************************************)
(* The scorer on its own: calculateGroupScore applied to a cohort of up to *)
(* MaxCohort equal signals and one more, then to the same cohort with one  *)
(* more signal, or with one signal observed later.  scored keeps the       *)
(* cohorts scored and the scores returned.                                 *)
(***************************************************************************)
\* The weighted-sum scorer of the earlier aggregator.  Weights are in
\* hundredths, recencyScore in thousandths, and the score in units of
\* 1/400000, so that every term is a whole number.  Its signals carry a
\* numeric strength: StrengthExplicit is 4, and the inferred signals of the
\* model stand for StrengthWeak, 1.
WeightedDefaultConfig ==
    [RecencyWeight |-> 40, FrequencyWeight |-> 30, StrengthWeight |-> 30,
     MinSignalCount |-> 2, ConflictThreshold |-> 30, RecencyDecayDays |-> 30]

SignalStrength(sig) == IF sig.Strength = StrengthExplicit THEN 4 ELSE 1

recencyScore(cfg, nw, timestamp) ==
    LET daysSince == nw - timestamp
    IN  IF daysSince >= cfg.RecencyDecayDays THEN 100
        ELSE 1000 - ((daysSince * 900) \div cfg.RecencyDecayDays)

RECURSIVE weightedTotalFrom(_, _, _, _)
weightedTotalFrom(cfg, nw, s, i) ==
    IF i > Len(s) THEN 0
    ELSE (cfg.RecencyWeight * recencyScore(cfg, nw, s[i].Timestamp) * 4)
         + (cfg.StrengthWeight * SignalStrength(s[i]) * 1000)
         + weightedTotalFrom(cfg, nw, s, i + 1)

calculateGroupScoreWeighted(cfg, nw, s) ==
    weightedTotalFrom(cfg, nw, s, 1) + (cfg.FrequencyWeight * Len(s) * 4000)

Block(n, s) == [i \in 1..n |-> s]

Cohorts ==
    { Block(n, s) \o t :
        n \in 1..MaxCohort, s \in Signal,
        t \in {<<>>} \cup { <<x>> : x \in Signal } }

ObservationTimes == { s.Timestamp : s \in Signal } \cup Nows

Scored(cfg, nw, s) ==
    [S |-> s,
     score |-> calculateGroupScore(cfg, nw, s),
     weighted |-> calculateGroupScoreWeighted(WeightedDefaultConfig, nw, s)]

ScorerInit ==
    /\ sigs = <<>>
    /\ config = DefaultConfig
    /\ now \in Nows
    /\ grouped = EmptyMap
    /\ returned = <<>>
    /\ cohort \in Cohorts
    /\ scored = <<>>
    /\ before = <<>>
    /\ pipe = <<>>
    /\ det = <<>>
    /\ db = <<>>

ScoreCohort ==
    /\ scored = <<>>
    /\ scored' = <<Scored(config, now, cohort)>>
    /\ UNCHANGED <<sigs, config, now, grouped, returned, cohort, before, pipe, det, db>>

ScoreWithOneMore ==
    /\ Len(scored) = 1
    /\ \E x \in Signal :
          LET more == Append(cohort, x)
          IN  /\ cohort' = more
              /\ scored' = Append(scored, Scored(config, now, more))
    /\ UNCHANGED <<sigs, config, now, grouped, returned, before, pipe, det, db>>

ScoreWithOneFresher ==
    /\ Len(scored) = 1
    /\ \E i \in DOMAIN cohort : \E t \in ObservationTimes :
          /\ t > cohort[i].Timestamp
          /\ t <= now
          /\ LET fresher == [cohort EXCEPT ![i].Timestamp = t]
             IN  /\ cohort' = fresher
                 /\ scored' = Append(scored, Scored(config, now, fresher))
    /\ UNCHANGED <<sigs, config, now, grouped, returned, before, pipe, det, db>>

ScorerNext == ScoreCohort \/ ScoreWithOneMore \/ ScoreWithOneFresher

ScorerSpec == ScorerInit /\ [][ScorerNext]_vars

(***************************************************************************)
(* The scorer on cohorts whose timestamps may lie after now: the clock of  *)
(* the Aggregator is read at construction, the timestamps come from the    *)
(* session logs, and neither scorer compares the two.                      *)
(***************************************************************************)
AnyNows == Nows \cup {5}

AnyTimeInit ==
    /\ sigs = <<>>
    /\ config = DefaultConfig
    /\ now \in AnyNows
    /\ grouped = EmptyMap
    /\ returned = <<>>
    /\ cohort \in Cohorts
    /\ scored = <<>>
    /\ before = <<>>
    /\ pipe = <<>>
    /\ det = <<>>
    /\ db = <<>>

AnyTimeSpec == AnyTimeInit /\ [][ScorerNext]_vars

(***************************************************************************)
(* The scorer on any slice its signature accepts, the empty one included.  *)
(***************************************************************************)
AnyCohortInit ==
    /\ sigs = <<>>
    /\ config = DefaultConfig
    /\ now \in Nows
    /\ grouped = EmptyMap
    /\ returned = <<>>
    /\ cohort \in Cohorts \cup {<<>>}
    /\ scored = <<>>
    /\ before = <<>>
    /\ pipe = <<>>
    /\ det = <<>>
    /\ db = <<>>

AnyCohortSpec == AnyCohortInit /\ [][ScorerNext]_vars

(***************************************************************************)
(* A later analysis over one more signal: the caller appends a signal to   *)
(* the ones it had and aggregates again.  before keeps the profile of the  *)
(* earlier run and the signal that was added.                              *)
(***************************************************************************)
AppendSignal ==
    /\ returned # <<>>
    /\ before = <<>>
    /\ Len(sigs) < MaxLen
    /\ \E x \in Signal :
          /\ sigs' = Append(sigs, x)
          /\ before' = <<[profile |-> returned[Len(returned)], added |-> x]>>
    /\ grouped' = EmptyMap
    /\ returned' = <<>>
    /\ UNCHANGED <<config, now, cohort, scored, pipe, det, db>>

GrowNext == Aggregate \/ AppendSignal

GrowSpec == Init /\ [][GrowNext]_vars

(***************************************************************************)
(* The aggregator as its exported functions accept it: NewAggregator takes *)
(* any Config value and Aggregate any Signal values, Category and Title    *)
(* being strings.  OpenConfigs holds the default and, per field, a value   *)
(* outside the documented range.                                           *)
(***************************************************************************)
OpenSignal ==
    { Sig("a::b", "c", "x", StrengthExplicit, 10),
      Sig("a", "b::c", "y", StrengthInferred, 12),
      Sig("tooling", "pkg-mgr", "pnpm", StrengthExplicit, 10),
      Sig("tooling", "Pkg-Mgr", "npm", StrengthInferred, 0) }

OpenInputs == UNION { [1..n -> OpenSignal] : n \in 0..MaxLen }

OpenConfigs ==
    { DefaultConfig,
      [DefaultConfig EXCEPT !.MinSignalCount = 0],
      [DefaultConfig EXCEPT !.ConflictThreshold = 0],
      [DefaultConfig EXCEPT !.ConflictThreshold = 150],
      [DefaultConfig EXCEPT !.RecentDays = -1],
      [DefaultConfig EXCEPT !.StaleDays = -1] }

OpenInit ==
    /\ sigs \in OpenInputs
    /\ config \in OpenConfigs
    /\ now \in Nows
    /\ grouped = EmptyMap
    /\ returned = <<>>
    /\ cohort = <<>>
    /\ scored = <<>>
    /\ before = <<>>
    /\ pipe = <<>>
    /\ det = <<>>
    /\ db = <<>>

OpenSpec == OpenInit /\ [][Next]_vars

(***************************************************************************)
(* The three-stage pipeline (Filter, Classify, Extract).  Its state is the *)
(* record pipe; the aggregator is idle meanwhile.  A text is a sequence of *)
(* characters.  What client.Chat returns is the environment's choice: an   *)
(* error, or a content that holds no JSON, JSON that does not unmarshal,   *)
(* or a JSON object, whose absent fields unmarshal to zero values.         *)
(***************************************************************************)
MaxEntries == 2

AggregatorIdle ==
    /\ sigs = <<>>
    /\ config = DefaultConfig
    /\ now = 17
    /\ grouped = EmptyMap
    /\ returned = <<>>
    /\ cohort = <<>>
    /\ scored = <<>>
    /\ before = <<>>

ValidCategories ==
    {"code_style", "architecture", "tooling", "version_control",
     "communication", "prohibition", "stack"}

\* mutant: every category string is accepted
IsValid_any(c) == c = c

IsValid(c) == c \in ValidCategories

IsSpace(ch) == ch \in {" ", "\n", "\t"}

RECURSIVE TrimLeft(_)
TrimLeft(s) ==
    IF s # <<>> /\ IsSpace(s[1]) THEN TrimLeft(Tail(s)) ELSE s

RECURSIVE TrimRight(_)
TrimRight(s) ==
    IF s # <<>> /\ IsSpace(s[Len(s)])
    THEN TrimRight(SubSeq(s, 1, Len(s) - 1))
    ELSE s

TrimSpace(s) == TrimRight(TrimLeft(s))

truncate(s, maxLen) ==
    LET flat == [i \in DOMAIN s |-> IF s[i] = "\n" THEN " " ELSE s[i]]
    IN  IF Len(flat) > maxLen
        THEN SubSeq(flat, 1, maxLen) \o <<".", ".", ".">>
        ELSE flat

ParsedEntry(type, content, timestamp) ==
    [Type |-> type, UserContent |-> content, Timestamp |-> timestamp,
     SessionID |-> "s1"]

ParsedEntries ==
    { ParsedEntry("user", <<"a">>, 1),
      ParsedEntry("user", <<" ", "b", "\n", "c", " ">>, 2),
      ParsedEntry("user", <<" ", "\n">>, 3),
      ParsedEntry("assistant", <<>>, 4) }

EntryLists == UNION { [1..n -> ParsedEntries] : n \in 0..MaxEntries }

ChatError == [err |-> TRUE, content |-> [json |-> "none"]]

ChatContent(c) == [err |-> FALSE, content |-> c]

Object(fields) == [json |-> "object", fields |-> fields]

Unparsable == { [json |-> "none"], [json |-> "bad"] }

FilterChats ==
    {ChatError} \cup
    { ChatContent(c) : c \in Unparsable \cup
        { Object([has_preference |-> TRUE, confidence |-> 60]),
          Object([has_preference |-> TRUE, confidence |-> 59]),
          Object([has_preference |-> FALSE, confidence |-> 90]),
          Object([has_preference |-> TRUE]) } }

ClassifyChats ==
    {ChatError} \cup
    { ChatContent(c) : c \in Unparsable \cup
        { Object([category |-> "tooling", confidence |-> 50]),
          Object([category |-> "tooling", confidence |-> 49]),
          Object([category |-> "code_style", confidence |-> 90]),
          Object([category |-> "none", confidence |-> 90]),
          Object([category |-> "Tooling", confidence |-> 90]),
          Object([confidence |-> 90]) } }

ExtractChats ==
    {ChatError} \cup
    { ChatContent(c) : c \in Unparsable \cup
        { Object([title |-> "use-pnpm", description |-> "Use pnpm",
                  strength |-> "explicit"]),
          Object([title |-> "use-pnpm", description |-> "Use pnpm",
                  strength |-> "Explicit"]),
          Object([title |-> "use-pnpm", description |-> "Use pnpm"]),
          Object([title |-> "", description |-> "Use pnpm",
                  strength |-> "explicit"]),
          Object([title |-> "use-pnpm", description |-> "",
                  strength |-> "inferred"]),
          Object([description |-> "Use pnpm", strength |-> "explicit"]) } }

\* json.Unmarshal of one field: the value, or the zero value when absent
Field(fields, name, zero) ==
    IF name \in DOMAIN fields THEN fields[name] ELSE zero

\* extractJSON followed by json.Unmarshal into the stage's response type
parseFilterResponse(content) ==
    IF content.json # "object" THEN [err |-> TRUE]
    ELSE [err |-> FALSE,
          HasPreference |-> Field(content.fields, "has_preference", FALSE),
          Confidence |-> Field(content.fields, "confidence", 0)]

parseClassifyResponse(content) ==
    IF content.json # "object" THEN [err |-> TRUE]
    ELSE [err |-> FALSE,
          Category |-> Field(content.fields, "category", ""),
          Confidence |-> Field(content.fields, "confidence", 0)]

parseExtractResponse(content) ==
    IF content.json # "object" THEN [err |-> TRUE]
    ELSE [err |-> FALSE,
          Title |-> Field(content.fields, "title", ""),
          Description |-> Field(content.fields, "description", ""),
          Strength |-> Field(content.fields, "strength", "")]

ZeroStats ==
    [TotalEntries |-> 0, UserEntries |-> 0, FilteredCount |-> 0,
     ClassifiedCount |-> 0, ExtractedCount |-> 0]

filterUserEntries(entries) == SelectSeq(entries, LAMBDA e : e.Type = "user")

checkPreference(chat) ==
    IF chat.err THEN [err |-> TRUE, hasPreference |-> FALSE]
    ELSE LET parsed == parseFilterResponse(chat.content)
         IN  IF parsed.err THEN [err |-> TRUE, hasPreference |-> FALSE]
             ELSE [err |-> FALSE,
                   hasPreference |-> parsed.HasPreference
                                        /\ parsed.Confidence >= 60]

classifyOne(chat) ==
    IF chat.err THEN [err |-> TRUE] ELSE parseClassifyResponse(chat.content)

extractOne(chat, cand) ==
    IF chat.err THEN [err |-> TRUE]
    ELSE LET resp == parseExtractResponse(chat.content)
         IN  IF resp.err THEN [err |-> TRUE]
             ELSE IF resp.Title = "" \/ resp.Description = "" THEN [err |-> TRUE]
             ELSE [err |-> FALSE,
                   sig |-> [Category |-> cand.Category,
                            Title |-> resp.Title,
                            Description |-> resp.Description,
                            Strength |-> IF resp.Strength = "explicit"
                                         THEN StrengthExplicit
                                         ELSE StrengthInferred,
                            Timestamp |-> cand.Timestamp,
                            Context |-> truncate(cand.Content, 200)]]

PipelineInit ==
    /\ AggregatorIdle
    /\ pipe \in { [pc |-> "start", entries |-> e, userEntries |-> <<>>,
                    i |-> 0, candidates |-> <<>>, classified |-> <<>>,
                    results |-> <<>>, stats |-> ZeroStats, out |-> <<>>] :
                  e \in EntryLists }
    /\ det = <<>>
    /\ db = <<>>

PipeFrame ==
    UNCHANGED <<sigs, config, now, grouped, returned, cohort, scored, before,
                det, db>>

\* Process returns (sigs, stats, err)
Return(p, signals, stats, err) ==
    [p EXCEPT !.pc = "done", !.stats = stats,
              !.out = <<[sigs |-> signals, stats |-> stats, err |-> err]>>]

ProcessStart ==
    /\ pipe # <<>>
    /\ pipe.pc = "start"
    /\ LET userEntries == filterUserEntries(pipe.entries)
           stats == [ZeroStats EXCEPT !.TotalEntries = Len(pipe.entries),
                                      !.UserEntries = Len(userEntries)]
       IN  pipe' = IF Len(userEntries) = 0
                   THEN Return(pipe, <<>>, stats, FALSE)
                   ELSE [pipe EXCEPT !.pc = "filter", !.i = 1,
                                     !.userEntries = userEntries,
                                     !.stats = stats]
    /\ PipeFrame

\* one iteration of the loop of Filter.Filter
FilterEntry ==
    /\ pipe # <<>>
    /\ pipe.pc = "filter"
    /\ pipe.i <= Len(pipe.userEntries)
    /\ LET entry == pipe.userEntries[pipe.i]
           content == TrimSpace(entry.UserContent)
           skip == [pipe EXCEPT !.i = pipe.i + 1]
       IN  IF entry.Type # "user" \/ content = <<>>
           THEN pipe' = skip
           ELSE \E chat \in FilterChats :
                   LET r == checkPreference(chat)
                   IN  pipe' = IF r.err \/ ~r.hasPreference
                               THEN skip
                               ELSE [skip EXCEPT !.candidates =
                                       Append(pipe.candidates,
                                              [Content |-> content,
                                               Timestamp |-> entry.Timestamp,
                                               SessionID |-> entry.SessionID])]
    /\ PipeFrame

\* Filter.Filter returns (candidates, nil); Process goes on
FilterReturn ==
    /\ pipe # <<>>
    /\ pipe.pc = "filter"
    /\ pipe.i > Len(pipe.userEntries)
    /\ LET err == FALSE
           stats == [pipe.stats EXCEPT !.FilteredCount = Len(pipe.candidates)]
       IN  pipe' = IF err THEN Return(pipe, <<>>, pipe.stats, TRUE)
                   ELSE IF Len(pipe.candidates) = 0
                   THEN Return(pipe, <<>>, stats, FALSE)
                   ELSE [pipe EXCEPT !.pc = "classify", !.i = 1,
                                     !.stats = stats]
    /\ PipeFrame

\* mutant: a failed classification ends the run with an error
ClassifyCandidate_failFast ==
    /\ pipe # <<>>
    /\ pipe.pc = "classify"
    /\ pipe.i <= Len(pipe.candidates)
    /\ \E chat \in ClassifyChats :
          LET cand == pipe.candidates[pipe.i]
              resp == classifyOne(chat)
              skip == [pipe EXCEPT !.i = pipe.i + 1]
          IN  pipe' =
                IF resp.err THEN Return(pipe, <<>>, pipe.stats, TRUE)
                ELSE IF ~IsValid(resp.Category) THEN skip
                ELSE IF resp.Confidence < 50 THEN skip
                ELSE [skip EXCEPT !.classified =
                        Append(pipe.classified,
                               [Content |-> cand.Content,
                                Timestamp |-> cand.Timestamp,
                                SessionID |-> cand.SessionID,
                                Category |-> resp.Category,
                                Confidence |-> resp.Confidence])]
    /\ PipeFrame

\* one iteration of the loop of Classifier.Classify
ClassifyCandidate ==
    /\ pipe # <<>>
    /\ pipe.pc = "classify"
    /\ pipe.i <= Len(pipe.candidates)
    /\ \E chat \in ClassifyChats :
          LET cand == pipe.candidates[pipe.i]
              resp == classifyOne(chat)
              skip == [pipe EXCEPT !.i = pipe.i + 1]
          IN  pipe' =
                IF resp.err THEN skip
                ELSE IF ~IsValid(resp.Category) THEN skip
                ELSE IF resp.Confidence < 50 THEN skip
                ELSE [skip EXCEPT !.classified =
                        Append(pipe.classified,
                               [Content |-> cand.Content,
                                Timestamp |-> cand.Timestamp,
                                SessionID |-> cand.SessionID,
                                Category |-> resp.Category,
                                Confidence |-> resp.Confidence])]
    /\ PipeFrame

\* Classifier.Classify returns (results, nil); Process goes on
ClassifyReturn ==
    /\ pipe # <<>>
    /\ pipe.pc = "classify"
    /\ pipe.i > Len(pipe.candidates)
    /\ LET err == FALSE
           stats == [pipe.stats EXCEPT !.ClassifiedCount = Len(pipe.classified)]
       IN  pipe' = IF err THEN Return(pipe, <<>>, pipe.stats, TRUE)
                   ELSE IF Len(pipe.classified) = 0
                   THEN Return(pipe, <<>>, stats, FALSE)
                   ELSE [pipe EXCEPT !.pc = "extract", !.i = 1,
                                     !.stats = stats]
    /\ PipeFrame

\* one iteration of the loop of Extractor.Extract
ExtractCandidate ==
    /\ pipe # <<>>
    /\ pipe.pc = "extract"
    /\ pipe.i <= Len(pipe.classified)
    /\ \E chat \in ExtractChats :
          LET r == extractOne(chat, pipe.classified[pipe.i])
              skip == [pipe EXCEPT !.i = pipe.i + 1]
          IN  pipe' = IF r.err THEN skip
                      ELSE [skip EXCEPT !.results = Append(pipe.results, r.sig)]
    /\ PipeFrame

\* Extractor.Extract returns (results, nil); Process returns
ExtractReturn ==
    /\ pipe # <<>>
    /\ pipe.pc = "extract"
    /\ pipe.i > Len(pipe.classified)
    /\ LET err == FALSE
           stats == [pipe.stats EXCEPT !.ExtractedCount = Len(pipe.results)]
       IN  pipe' = IF err THEN Return(pipe, <<>>, pipe.stats, TRUE)
                   ELSE Return(pipe, pipe.results, stats, FALSE)
    /\ PipeFrame

PipelineNext ==
    \/ ProcessStart
    \/ FilterEntry
    \/ FilterReturn
    \/ ClassifyCandidate
    \/ ClassifyReturn
    \/ ExtractCandidate
    \/ ExtractReturn

PipelineSpec == PipelineInit /\ [][PipelineNext]_vars

(***************************************************************************)
(* ai.Detector.DetectSignals.  Its state is the record det.  Texts that    *)
(* the code trims or lowers are sequences of characters (Chars).  What     *)
(* BuildPrompt, client.Chat and parseOutput yield for a batch is the       *)
(* environment's choice.                                                   *)
(***************************************************************************)
MaxDetEntries == 2

UpperCase ==
    <<"A", "B", "C", "D", "E", "F", "G", "H", "I",
      "J", "K", "L", "M", "N", "O", "P", "Q", "R",
      "S", "T", "U", "V", "W", "X", "Y", "Z">>

LowerCase ==
    <<"a", "b", "c", "d", "e", "f", "g", "h", "i",
      "j", "k", "l", "m", "n", "o", "p", "q", "r",
      "s", "t", "u", "v", "w", "x", "y", "z">>

UpperToLower ==
    [ch \in Range(UpperCase) |->
        LowerCase[CHOOSE i \in DOMAIN UpperCase : UpperCase[i] = ch]]

\* strings.ToLower on ASCII letters
ToLower(s) ==
    [i \in DOMAIN s |->
        IF s[i] \in DOMAIN UpperToLower THEN UpperToLower[s[i]] ELSE s[i]]

ContentBlock(type, text, name) ==
    [Type |-> type, Text |-> text, Name |-> name, Input |-> <<" ", "{", "}">>]

DetectorEntry(type, content, blocks, timestamp) ==
    [Type |-> type, UserContent |-> content, AssistantContent |-> blocks,
     Timestamp |-> timestamp]

DetectorEntries ==
    { DetectorEntry("user", <<"a">>, <<>>, 3),
      DetectorEntry("user", <<" ">>, <<>>, 2),
      DetectorEntry("assistant", <<>>,
                    <<ContentBlock("tool_use", <<>>, "bash")>>, 1),
      DetectorEntry("assistant", <<>>,
                    <<ContentBlock("thinking", <<>>, "")>>, 4) }

DetectorInputs == UNION { [1..n -> DetectorEntries] : n \in 0..MaxDetEntries }

GetToolUses(entry) ==
    SelectSeq(entry.AssistantContent, LAMBDA b : b.Type = "tool_use")

GetTextContent(entry) ==
    LET texts == SelectSeq(entry.AssistantContent, LAMBDA b : b.Type = "text")
    IN  IF texts = <<>> THEN <<>> ELSE texts[1].Text

extractTools(entry) ==
    LET tools == GetToolUses(entry)
    IN  [i \in DOMAIN tools |->
            [Name |-> tools[i].Name, Input |-> TrimSpace(tools[i].Input)]]

RECURSIVE toAIEntriesFrom(_, _, _)
toAIEntriesFrom(entries, i, aiEntries) ==
    IF i > Len(entries) THEN aiEntries
    ELSE
        LET entry == entries[i]
            add ==
                IF entry.Type = "user"
                THEN LET content == TrimSpace(entry.UserContent)
                     IN  IF content = <<>> THEN <<>>
                         ELSE <<[Role |-> "user", Timestamp |-> entry.Timestamp,
                                 Content |-> content, Tools |-> <<>>]>>
                ELSE IF entry.Type = "assistant"
                THEN LET content == TrimSpace(GetTextContent(entry))
                         tools == extractTools(entry)
                     IN  IF content = <<>> /\ Len(tools) = 0 THEN <<>>
                         ELSE <<[Role |-> "assistant",
                                 Timestamp |-> entry.Timestamp,
                                 Content |-> content, Tools |-> tools]>>
                ELSE <<>>
        IN  toAIEntriesFrom(entries, i + 1, aiEntries \o add)

toAIEntries(entries) == toAIEntriesFrom(entries, 1, <<>>)

SignalTypes ==
    { <<"a", "p", "p", "r", "o", "v", "a", "l">>,
      <<"c", "o", "r", "r", "e", "c", "t", "i", "o", "n">>,
      <<"s", "t", "y", "l", "e">>,
      <<"s", "t", "a", "c", "k">> }

allowedGroups ==
    { <<"s", "t", "a", "c", "k">>,
      <<"s", "t", "y", "l", "e">>,
      <<"w", "o", "r", "k", "f", "l", "o", "w">>,
      <<"t", "o", "o", "l", "i", "n", "g">>,
      <<"q", "u", "a", "l", "i", "t", "y">>,
      <<"c", "o", "m", "m", "u", "n", "i", "c", "a", "t", "i", "o", "n">>,
      <<"t", "e", "s", "t", "i", "n", "g">>,
      <<"m", "i", "s", "c">> }

normalizeGroup(group, sigType) ==
    LET g == ToLower(TrimSpace(group))
    IN  IF g # <<>> /\ g \in allowedGroups THEN g
        ELSE IF sigType = <<"s", "t", "a", "c", "k">> THEN <<"s", "t", "a", "c", "k">>
        ELSE IF sigType = <<"s", "t", "y", "l", "e">> THEN <<"s", "t", "y", "l", "e">>
        ELSE IF sigType \in { <<"a", "p", "p", "r", "o", "v", "a", "l">>,
                              <<"c", "o", "r", "r", "e", "c", "t", "i", "o", "n">> }
        THEN <<"c", "o", "m", "m", "u", "n", "i", "c", "a", "t", "i", "o", "n">>
        ELSE <<"m", "i", "s", "c">>

\* SignalStrength of the earlier Signal type: weak 1 .. explicit 4
parseStrength(value) ==
    LET v == ToLower(TrimSpace(value))
    IN  IF v = <<"e", "x", "p", "l", "i", "c", "i", "t">> THEN 4
        ELSE IF v = <<"s", "t", "r", "o", "n", "g">> THEN 3
        ELSE IF v = <<"m", "o", "d", "e", "r", "a", "t", "e">> THEN 2
        ELSE IF v = <<"w", "e", "a", "k">> THEN 1
        ELSE 2

\* the RFC 3339 texts of the model and the days they denote
RFC3339 ==
    [t \in {"2026-01-05T00:00:00Z", "2026-01-02T00:00:00Z"} |->
        IF t = "2026-01-05T00:00:00Z" THEN 5 ELSE 2]

convertSignal(sig, clock) ==
    LET sigType == ToLower(TrimSpace(sig.Type))
        category == TrimSpace(sig.Category)
        key == TrimSpace(sig.Key)
        value == TrimSpace(sig.Value)
        timestamp == IF sig.Timestamp # "" /\ sig.Timestamp \in DOMAIN RFC3339
                     THEN RFC3339[sig.Timestamp]
                     ELSE clock
        context == TrimSpace(sig.Context)
    IN  IF sigType \notin SignalTypes THEN [ok |-> FALSE]
        ELSE IF category = <<>> \/ key = <<>> \/ value = <<>> THEN [ok |-> FALSE]
        ELSE [ok |-> TRUE,
              sig |-> [Type |-> sigType,
                       Group |-> normalizeGroup(sig.Group, sigType),
                       Category |-> category,
                       Key |-> key,
                       Value |-> value,
                       Strength |-> parseStrength(sig.Strength),
                       Timestamp |-> timestamp,
                       Context |-> IF Len(context) > 200
                                   THEN SubSeq(context, 1, 200)
                                   ELSE context]]

RECURSIVE toSignalsFrom(_, _, _, _)
toSignalsFrom(outputSignals, clock, i, results) ==
    IF i > Len(outputSignals) THEN results
    ELSE LET converted == convertSignal(outputSignals[i], clock)
         IN  toSignalsFrom(outputSignals, clock, i + 1,
                 IF converted.ok THEN Append(results, converted.sig) ELSE results)

toSignals(output, clock) == toSignalsFrom(output.Signals, clock, 1, <<>>)

OutputSignal(type, key, strength, timestamp) ==
    [Type |-> type, Group |-> <<>>, Category |-> <<"c">>, Key |-> key,
     Value |-> <<"v", " ">>, Strength |-> strength, Timestamp |-> timestamp,
     Context |-> <<>>]

OutputStyle ==
    OutputSignal(<<" ", "S", "t", "y", "l", "e">>, <<"k">>, <<"E", "X", "P", "L", "I", "C", "I", "T">>, "2026-01-05T00:00:00Z")

OutputStack ==
    OutputSignal(<<"s", "t", "a", "c", "k">>, <<"k">>, <<>>, "2026-01-02T00:00:00Z")

OutputUnknownType == OutputSignal(<<"t", "a", "s", "k">>, <<"k">>, <<>>, "")

OutputUndated == OutputSignal(<<"s", "t", "a", "c", "k">>, <<"k">>, <<>>, "yesterday")

Outputs ==
    { <<>>,
      <<OutputStyle>>,
      <<OutputStack>>,
      <<OutputStyle, OutputStack>>,
      <<OutputUnknownType, OutputUndated>> }

DetectorChats ==
    {ChatError} \cup
    { ChatContent(c) : c \in Unparsable \cup
        { Object([signals |-> o]) : o \in Outputs } }

parseOutput(content) ==
    IF content.json # "object" THEN [err |-> TRUE]
    ELSE [err |-> FALSE, Signals |-> Field(content.fields, "signals", <<>>)]

\* NewDetector: a batch size of zero or less becomes 30
NewDetectorBatchSize(cfgBatchSize) ==
    IF cfgBatchSize <= 0 THEN 30 ELSE cfgBatchSize

DetectorInit ==
    /\ AggregatorIdle
    /\ pipe = <<>>
    /\ det \in { [pc |-> "start", entries |-> e,
                   batchSize |-> NewDetectorBatchSize(b),
                   aiEntries |-> <<>>, i |-> 0, collected |-> <<>>,
                   batches |-> <<>>, out |-> <<>>] :
                 e \in DetectorInputs, b \in {0, 1, 2} }
    /\ db = <<>>

DetectorFrame ==
    UNCHANGED <<sigs, config, now, grouped, returned, cohort, scored, before,
                pipe, db>>

DetectStart ==
    /\ det # <<>>
    /\ det.pc = "start"
    /\ LET aiEntries == toAIEntries(det.entries)
       IN  det' = IF Len(aiEntries) = 0
                  THEN [det EXCEPT !.pc = "done",
                          !.out = <<[sigs |-> <<>>, err |-> FALSE]>>]
                  ELSE [det EXCEPT !.pc = "batch", !.aiEntries = aiEntries,
                                   !.i = 0]
    /\ DetectorFrame

\* mutant: a failed batch returns what the earlier batches collected
DetectBatch_keepsCollected ==
    /\ det # <<>>
    /\ det.pc = "batch"
    /\ det.i < Len(det.aiEntries)
    /\ \E promptErr \in BOOLEAN : \E chat \in DetectorChats :
          LET end == IF det.i + det.batchSize > Len(det.aiEntries)
                     THEN Len(det.aiEntries)
                     ELSE det.i + det.batchSize
              parsed == parseOutput(chat.content)
              failed == promptErr \/ chat.err \/ parsed.err
              seen == [det EXCEPT !.batches =
                          Append(@, [from |-> det.i, to |-> end,
                                     failed |-> failed])]
          IN  det' =
                IF failed
                THEN [seen EXCEPT !.pc = "done",
                        !.out = <<[sigs |-> det.collected, err |-> TRUE]>>]
                ELSE [seen EXCEPT !.i = det.i + det.batchSize,
                        !.collected = det.collected \o toSignals(parsed, now)]
    /\ DetectorFrame

\* one iteration of the batch loop; batches keeps which entries each
\* iteration took and whether it failed
DetectBatch ==
    /\ det # <<>>
    /\ det.pc = "batch"
    /\ det.i < Len(det.aiEntries)
    /\ \E promptErr \in BOOLEAN : \E chat \in DetectorChats :
          LET end == IF det.i + det.batchSize > Len(det.aiEntries)
                     THEN Len(det.aiEntries)
                     ELSE det.i + det.batchSize
              parsed == parseOutput(chat.content)
              failed == promptErr \/ chat.err \/ parsed.err
              seen == [det EXCEPT !.batches =
                          Append(@, [from |-> det.i, to |-> end,
                                     failed |-> failed])]
          IN  det' =
                IF failed
                THEN [seen EXCEPT !.pc = "done",
                        !.out = <<[sigs |-> <<>>, err |-> TRUE]>>]
                ELSE [seen EXCEPT !.i = det.i + det.batchSize,
                        !.collected = det.collected \o toSignals(parsed, now)]
    /\ DetectorFrame

DetectReturn ==
    /\ det # <<>>
    /\ det.pc = "batch"
    /\ det.i >= Len(det.aiEntries)
    /\ LET less == [x \in Range(det.collected) |-> 0 - x.Timestamp]
           sorted == sortSlice(det.collected, less)
       IN  det' = [det EXCEPT !.pc = "done", !.collected = sorted,
                     !.out = <<[sigs |-> sorted, err |-> FALSE]>>]
    /\ DetectorFrame

DetectorNext == DetectStart \/ DetectBatch \/ DetectReturn

DetectorSpec == DetectorInit /\ [][DetectorNext]_vars

(***************************************************************************)
(* db.GetDB called by concurrent goroutines.  Its state is the record db:  *)
(* the package variables dbInstance and dbErr, the done flag and the mutex *)
(* of dbOnce, and per caller its position, the calls it has made and what  *)
(* they returned.  sync.Once.Do reads done, and when it is unset takes the *)
(* mutex, reads done again, runs the function and sets done before it      *)
(* releases the mutex.  initRuns counts the runs of initializeDuckDB.      *)
(***************************************************************************)
MaxCalls == 2

Callers == {"g1", "g2", "g3"}

\* what initializeDuckDB returns: the handle, or nil and an error
InitResults ==
    { [instance |-> "db", err |-> "nil"],
      [instance |-> "nil", err |-> "failed to open DuckDB"],
      [instance |-> "nil", err |-> "failed to install JSON extension"],
      [instance |-> "nil", err |-> "failed to load JSON extension"] }

DbInit ==
    /\ AggregatorIdle
    /\ pipe = <<>>
    /\ det = <<>>
    /\ db = [pc |-> [c \in Callers |-> "idle"],
             calls |-> [c \in Callers |-> 0],
             returns |-> [c \in Callers |-> <<>>],
             done |-> FALSE, mutex |-> "free",
             dbInstance |-> "nil", dbErr |-> "nil", initRuns |-> 0]

DbFrame ==
    UNCHANGED <<sigs, config, now, grouped, returned, cohort, scored, before,
                pipe, det>>

\* GetDB is entered: Once.Do reads done
CallGetDB(c) ==
    /\ db # <<>>
    /\ db.pc[c] = "idle"
    /\ db.calls[c] < MaxCalls
    /\ db' = [db EXCEPT !.calls[c] = @ + 1,
                        !.pc[c] = IF db.done THEN "return" ELSE "lock"]
    /\ DbFrame

\* mutant: done is not read again once the mutex is held
OnceLock_noRecheck(c) ==
    /\ db # <<>>
    /\ db.pc[c] = "lock"
    /\ db.mutex = "free"
    /\ db' = [db EXCEPT !.mutex = c, !.pc[c] = "init"]
    /\ DbFrame

\* Once.doSlow takes the mutex and reads done again
OnceLock(c) ==
    /\ db # <<>>
    /\ db.pc[c] = "lock"
    /\ db.mutex = "free"
    /\ db' = [db EXCEPT !.mutex = c,
                        !.pc[c] = IF db.done THEN "unlock" ELSE "init"]
    /\ DbFrame

\* the function passed to Once.Do: dbInstance, dbErr = initializeDuckDB();
\* done is set when it has returned
RunInitialize(c) ==
    /\ db # <<>>
    /\ db.pc[c] = "init"
    /\ \E r \in InitResults :
          db' = [db EXCEPT !.dbInstance = r.instance, !.dbErr = r.err,
                           !.initRuns = @ + 1, !.done = TRUE,
                           !.pc[c] = "unlock"]
    /\ DbFrame

OnceUnlock(c) ==
    /\ db # <<>>
    /\ db.pc[c] = "unlock"
    /\ db' = [db EXCEPT !.mutex = "free", !.pc[c] = "return"]
    /\ DbFrame

\* return dbInstance, dbErr
ReturnDB(c) ==
    /\ db # <<>>
    /\ db.pc[c] = "return"
    /\ db' = [db EXCEPT !.returns[c] =
                            Append(@, [instance |-> db.dbInstance,
                                       err |-> db.dbErr]),
                        !.pc[c] = "idle"]
    /\ DbFrame

DbNext ==
    \E c \in Callers :
        \/ CallGetDB(c)
        \/ OnceLock(c)
        \/ RunInitialize(c)
        \/ OnceUnlock(c)
        \/ ReturnDB(c)

DbSpec == DbInit /\ [][DbNext]_vars

(***************************************************************************)
(* Vocabulary of the properties, stated on the caller's input sigs and not *)
(* on the engine's working data.                                           *)
(***************************************************************************)
Last == returned[Len(returned)]

Returned == Range(returned)

GroupIdsOf(s) == { <<s[i].Category, s[i].Title>> : i \in DOMAIN s }

\* the input signals of preference identity id, in input order
GroupOf(id) ==
    SelectSeq(sigs, LAMBDA x : x.Category = id[1] /\ x.Title = id[2])

DescsOf(g) == { g[i].Description : i \in DOMAIN g }

CohortOf(g, d) == SelectSeq(g, LAMBDA x : x.Description = d)

Timestamps(g) == { g[i].Timestamp : i \in DOMAIN g }

MaxOf(S) == CHOOSE t \in S : \A u \in S : t >= u

MinOf(S) == CHOOSE t \in S : \A u \in S : t <= u

Score(g) == calculateGroupScore(config, now, g)

PrefsFor(p, id) ==
    { i \in DOMAIN p.Preferences :
        p.Preferences[i].Category = id[1] /\ p.Preferences[i].Title = id[2] }

ConflictsFor(p, id) ==
    { i \in DOMAIN p.Conflicts :
        p.Conflicts[i].Category = id[1] /\ p.Conflicts[i].Title = id[2] }

\* d is a top-scoring cohort of g
IsTop(g, d) ==
    \A e \in DescsOf(g) : Score(CohortOf(g, d)) >= Score(CohortOf(g, e))

\* at least two cohorts, and second-highest / highest >= ConflictThreshold
RatioReached(g) ==
    \E d1, d2 \in DescsOf(g) :
        /\ d1 # d2
        /\ IsTop(g, d1)
        /\ Score(CohortOf(g, d1)) > 0
        /\ Score(CohortOf(g, d2)) * 100
              >= config.ConflictThreshold * Score(CohortOf(g, d1))

\* the subsequence of s at the indices in I
SubSeqAt(s, I) ==
    LET take[i \in 0..Len(s)] ==
            IF i = 0 THEN <<>>
            ELSE IF i \in I THEN Append(take[i - 1], s[i]) ELSE take[i - 1]
    IN  take[Len(s)]

(***************************************************************************)
(* C1: for every group with at least MinSignalCount signals, the profile   *)
(* holds a Conflict for the group if and only if the group has two or more *)
(* value-cohorts and second-highest / highest cohort score reaches         *)
(* ConflictThreshold; in every other case it holds a Preference for it,    *)
(* and never both.                                                         *)
(***************************************************************************)
C1_ConflictIffRatioReached ==
    \A p \in Returned : \A id \in GroupIdsOf(sigs) :
        LET g == GroupOf(id)
        IN  Len(g) >= config.MinSignalCount =>
              /\ (ConflictsFor(p, id) # {}) <=> RatioReached(g)
              /\ (PrefsFor(p, id) # {}) <=> ~RatioReached(g)

\* a Conflict emitted for a group whose ratio is exactly the threshold
C1_Witness ==
    /\ returned # <<>>
    /\ \E id \in GroupIdsOf(sigs) :
         LET g == GroupOf(id)
         IN  /\ Len(g) >= config.MinSignalCount
             /\ ConflictsFor(Last, id) # {}
             /\ \E d1, d2 \in DescsOf(g) :
                  /\ d1 # d2
                  /\ IsTop(g, d1)
                  /\ \A e \in DescsOf(g) \ {d1} :
                        Score(CohortOf(g, e)) * 100
                           = config.ConflictThreshold * Score(CohortOf(g, d1))

(***************************************************************************)
(* C2: when a group has two or more cohorts and the ratio is below the     *)
(* threshold, the emitted Preference is built from the top cohort alone:   *)
(* its Description, SignalCount, FirstSeen, LastSeen and Confidence are    *)
(* those of the top-scoring cohort.                                        *)
(***************************************************************************)
C2_PreferenceFromTopCohortOnly ==
    \A p \in Returned : \A id \in GroupIdsOf(sigs) :
        LET g == GroupOf(id)
        IN  ( /\ Len(g) >= config.MinSignalCount
              /\ Cardinality(DescsOf(g)) >= 2
              /\ ~RatioReached(g) ) =>
            \E i \in PrefsFor(p, id) : \E d \in DescsOf(g) :
                LET top == CohortOf(g, d)
                    pref == p.Preferences[i]
                IN  /\ IsTop(g, d)
                    /\ pref.Description = d
                    /\ pref.SignalCount = Len(top)
                    /\ pref.FirstSeen = MinOf(Timestamps(top))
                    /\ pref.LastSeen = MaxOf(Timestamps(top))
                    /\ pref.Confidence = Score(top)

(***************************************************************************)
(* C3: with the default configuration and now not before the last signal,  *)
(* the scenario pnpm explicit day 0, pnpm explicit day 10, npm inferred    *)
(* day 12 yields exactly one Preference, pkg-mgr = pnpm with signalCount 3 *)
(* or 2, and no Conflict.                                                  *)
(***************************************************************************)
Scenario ==
    << Sig("tooling", "pkg-mgr", "pnpm", StrengthExplicit, 0),
       Sig("tooling", "pkg-mgr", "pnpm", StrengthExplicit, 10),
       Sig("tooling", "pkg-mgr", "npm", StrengthInferred, 12) >>

C3_ScenarioGivesPnpm ==
    ( /\ sigs = Scenario
      /\ config = DefaultConfig
      /\ now >= MaxOf(Timestamps(Scenario)) ) =>
    \A p \in Returned :
        /\ p.Conflicts = <<>>
        /\ Len(p.Preferences) = 1
        /\ p.Preferences[1].Title = "pkg-mgr"
        /\ p.Preferences[1].Description = "pnpm"
        /\ p.Preferences[1].SignalCount \in {2, 3}

(***************************************************************************)
(* C4: with MinSignalCount = 2, a group of one inferred signal yields      *)
(* neither a Preference nor a Conflict, and a group of one explicit signal *)
(* yields a Preference.                                                    *)
(***************************************************************************)
C4_SingleExplicitStillEmitted ==
    config.MinSignalCount = 2 =>
    \A p \in Returned : \A id \in GroupIdsOf(sigs) :
        LET g == GroupOf(id)
        IN  Len(g) = 1 =>
              /\ g[1].Strength # StrengthExplicit =>
                    PrefsFor(p, id) = {} /\ ConflictsFor(p, id) = {}
              /\ g[1].Strength = StrengthExplicit => PrefsFor(p, id) # {}

(***************************************************************************)
(* C5: TimeRange is (minimum timestamp, maximum timestamp) over all input  *)
(* signals, whatever the input order, so Start <= End for every non-empty  *)
(* input.                                                                  *)
(***************************************************************************)
C5_TimeRangeIsMinMax ==
    \A p \in Returned :
        sigs # <<>> =>
          /\ p.TimeRange.Start = MinOf(Timestamps(sigs))
          /\ p.TimeRange.End = MaxOf(Timestamps(sigs))
          /\ p.TimeRange.Start <= p.TimeRange.End

(***************************************************************************)
(* C6: determinism: two runs of Aggregate on the same input with the same  *)
(* now and configuration return identical profiles, including the order of *)
(* Preferences, of Conflicts and of each Conflict's values.                *)
(***************************************************************************)
C6_RepeatedRunsIdentical ==
    Len(returned) > 1 => returned[1] = Last

(***************************************************************************)
(* C7: conservation: AnalyzedMessages is the input length, and the groups  *)
(* of groupSignals are an order-preserving partition of the input: some    *)
(* assignment of every input position to one group makes each group the    *)
(* subsequence of the input at its positions.                              *)
(***************************************************************************)
C7_Conservation ==
    \A p \in Returned :
        /\ p.AnalyzedMessages = Len(sigs)
        /\ \E assign \in [DOMAIN sigs -> DOMAIN grouped] :
              \A k \in DOMAIN grouped :
                  /\ grouped[k] # <<>>
                  /\ grouped[k] =
                        SubSeqAt(sigs, { i \in DOMAIN sigs : assign[i] = k })

\* a run over three signals of two interleaved groups
C7_Witness ==
    /\ returned # <<>>
    /\ Len(sigs) >= 3
    /\ Cardinality(DOMAIN grouped) > 1
    /\ \E k \in DOMAIN grouped : Len(grouped[k]) > 1
    /\ GroupKey(sigs[1]) # GroupKey(sigs[1 + 1])
    /\ GroupKey(sigs[1]) = GroupKey(sigs[Len(sigs)])

(***************************************************************************)
(* C8: a Preference stands for the signal set S of its group: its          *)
(* Description is the value of a signal with the latest timestamp in S,    *)
(* LastSeen the maximum and FirstSeen the minimum timestamp of S,          *)
(* SignalCount = |S| and Confidence = score(S), whatever the input order.  *)
(***************************************************************************)
C8_PreferenceFields ==
    \A p \in Returned : \A i \in DOMAIN p.Preferences :
        LET pref == p.Preferences[i]
            S == GroupOf(<<pref.Category, pref.Title>>)
        IN  /\ S # <<>>
            /\ \E j \in DOMAIN S :
                  /\ S[j].Timestamp = MaxOf(Timestamps(S))
                  /\ S[j].Description = pref.Description
            /\ pref.LastSeen = MaxOf(Timestamps(S))
            /\ pref.FirstSeen = MinOf(Timestamps(S))
            /\ pref.FirstSeen <= pref.LastSeen
            /\ pref.SignalCount = Len(S)
            /\ pref.Confidence = Score(S)

\* a Preference over three same-value signals of three different days that
\* arrive neither oldest-first nor newest-first
C8_Witness ==
    /\ returned # <<>>
    /\ \E i \in DOMAIN Last.Preferences :
         LET pref == Last.Preferences[i]
             S == GroupOf(<<pref.Category, pref.Title>>)
         IN  /\ Len(S) >= 3
             /\ Cardinality(DescsOf(S)) = 1
             /\ Cardinality(Timestamps(S)) = Len(S)
             /\ S[1].Timestamp # MaxOf(Timestamps(S))
             /\ S[1].Timestamp # MinOf(Timestamps(S))
             /\ pref.FirstSeen < pref.LastSeen

(***************************************************************************)
(* C9: in every Conflict the values are sorted by timestamp descending,    *)
(* and the first value carries the latest timestamp of the whole group.    *)
(***************************************************************************)
C9_ConflictValuesByRecency ==
    \A p \in Returned : \A i \in DOMAIN p.Conflicts :
        LET c == p.Conflicts[i]
            g == GroupOf(<<c.Category, c.Title>>)
        IN  /\ c.Values # <<>>
            /\ \A a, b \in DOMAIN c.Values :
                  a < b => c.Values[a].Timestamp >= c.Values[b].Timestamp
            /\ c.Values[1].Timestamp = MaxOf(Timestamps(g))

\* a Conflict whose values carry different timestamps, the newest cohort
\* being the one whose first signal arrives last
C9_Witness ==
    /\ returned # <<>>
    /\ \E i \in DOMAIN Last.Conflicts :
         LET c == Last.Conflicts[i]
             g == GroupOf(<<c.Category, c.Title>>)
         IN  /\ Len(c.Values) > 1
             /\ c.Values[1].Timestamp > c.Values[Len(c.Values)].Timestamp
             /\ g[1].Description # c.Values[1].Description

(***************************************************************************)
(* C10: a Conflict holds exactly one value per distinct description of its *)
(* group, each with the cohort's description, its maximum timestamp, its   *)
(* signal count and its score as Strength; Category and Title are the      *)
(* group's.                                                                *)
(***************************************************************************)
C10_ConflictValuePerCohort ==
    \A p \in Returned : \A i \in DOMAIN p.Conflicts :
        LET c == p.Conflicts[i]
            g == GroupOf(<<c.Category, c.Title>>)
        IN  /\ g # <<>>
            /\ Len(c.Values) = Cardinality(DescsOf(g))
            /\ { c.Values[j].Description : j \in DOMAIN c.Values } = DescsOf(g)
            /\ \A j \in DOMAIN c.Values :
                  LET v == c.Values[j]
                      members == CohortOf(g, v.Description)
                  IN  /\ v.Timestamp = MaxOf(Timestamps(members))
                      /\ v.SignalCount = Len(members)
                      /\ v.Strength = Score(members)

\* a Conflict between cohorts of different sizes and different scores
C10_Witness ==
    /\ returned # <<>>
    /\ \E i \in DOMAIN Last.Conflicts :
         LET c == Last.Conflicts[i]
         IN  /\ Len(c.Values) > 1
             /\ c.Values[1].SignalCount # c.Values[Len(c.Values)].SignalCount
             /\ c.Values[1].Strength # c.Values[Len(c.Values)].Strength

(***************************************************************************)
(* C11: in every returned profile the Preferences are sorted by confidence *)
(* descending.                                                             *)
(***************************************************************************)
C11_PreferencesByConfidence ==
    \A p \in Returned : \A i, j \in DOMAIN p.Preferences :
        i < j => p.Preferences[i].Confidence >= p.Preferences[j].Confidence

\* two Preferences of different confidence, the stronger one standing for
\* the group that occurs later in the input
C11_Witness ==
    /\ returned # <<>>
    /\ Len(Last.Preferences) > 1
    /\ Last.Preferences[1].Confidence
          > Last.Preferences[Len(Last.Preferences)].Confidence
    /\ sigs[1].Title = Last.Preferences[Len(Last.Preferences)].Title

(***************************************************************************)
(* C14: Aggregate on an empty input returns a profile with                 *)
(* AnalyzedMessages = 0, no Preference, no Conflict and the zero           *)
(* TimeRange.                                                              *)
(***************************************************************************)
C14_EmptyInput ==
    sigs = <<>> =>
    \A p \in Returned :
        /\ p.AnalyzedMessages = 0
        /\ p.Preferences = <<>>
        /\ p.Conflicts = <<>>
        /\ p.TimeRange.Start = ZeroTime
        /\ p.TimeRange.End = ZeroTime

\* Aggregate has returned for the empty input
C14_Witness ==
    /\ sigs = <<>>
    /\ returned # <<>>
    /\ grouped = EmptyMap

(***************************************************************************)
(* C16: group independence: the Preference or Conflict emitted for a group *)
(* depends only on the group's own signals, the configuration and now: it  *)
(* is the element that any run over the group's signals alone emits.       *)
(***************************************************************************)
ElementFor(p, id) ==
    [prefs |-> { p.Preferences[i] : i \in PrefsFor(p, id) },
     conflicts |-> { p.Conflicts[i] : i \in ConflictsFor(p, id) }]

\* the profiles a run over the signals of id alone may return
SoloProfiles(id) ==
    LET g == GroupOf(id)
        groups == groupSignals(g)
    IN  { AggregateResult(config, now, g, groups, gOrder, dOrders) :
            gOrder \in MapOrders(groups), dOrders \in DescOrders(groups) }

C16_GroupIndependence ==
    \A p \in Returned : \A id \in GroupIdsOf(sigs) :
        \A q \in SoloProfiles(id) : ElementFor(p, id) = ElementFor(q, id)

(***************************************************************************)
(* C17: for a group with fewer than MinSignalCount signals a Preference is *)
(* emitted if any of its signals is explicit, otherwise nothing is; a      *)
(* Conflict is emitted in neither case.                                    *)
(***************************************************************************)
C17_SmallGroupExplicitRule ==
    \A p \in Returned : \A id \in GroupIdsOf(sigs) :
        LET g == GroupOf(id)
            anyExplicit == \E i \in DOMAIN g : g[i].Strength = StrengthExplicit
        IN  Len(g) < config.MinSignalCount =>
              /\ ConflictsFor(p, id) = {}
              /\ (PrefsFor(p, id) # {}) <=> anyExplicit

(***************************************************************************)
(* C19: Preferences of equal confidence appear in group-discovery order:   *)
(* the one whose group occurs first in the input comes first.              *)
(***************************************************************************)
FirstIndex(id) ==
    MinOf({ k \in DOMAIN sigs :
              sigs[k].Category = id[1] /\ sigs[k].Title = id[2] })

C19_TiesInDiscoveryOrder ==
    \A p \in Returned : \A i, j \in DOMAIN p.Preferences :
        LET a == p.Preferences[i]
            b == p.Preferences[j]
        IN  (i < j /\ a.Confidence = b.Confidence) =>
               FirstIndex(<<a.Category, a.Title>>)
                  < FirstIndex(<<b.Category, b.Title>>)

(***************************************************************************)
(* C12: the scorer is monotonic in frequency and recency: a cohort that    *)
(* contains another scores at least as high, and so does a cohort in which *)
(* signals were observed later (not after now).  Both scorers are held to  *)
(* it: the bucketed one (score) and the weighted sum (weighted).           *)
(***************************************************************************)
CountIn(s, x) == Cardinality({ i \in DOMAIN s : s[i] = x })

Contains(big, small) ==
    \A x \in Range(small) : CountIn(small, x) <= CountIn(big, x)

IsFresher(fresh, old) ==
    /\ Len(fresh) = Len(old)
    /\ \A i \in DOMAIN old :
          /\ fresh[i].Timestamp >= old[i].Timestamp
          /\ fresh[i].Timestamp <= now
          /\ [fresh[i] EXCEPT !.Timestamp = old[i].Timestamp] = old[i]

C12_ScorerMonotonic ==
    \A a, b \in Range(scored) :
        (Contains(b.S, a.S) \/ IsFresher(b.S, a.S)) =>
            /\ a.score <= b.score
            /\ a.weighted <= b.weighted

\* one more inferred signal lifts an all-inferred cohort into a higher
\* frequency bucket
C12_Witness ==
    /\ Len(scored) > 1
    /\ Len(scored[Len(scored)].S) > Len(scored[1].S)
    /\ Contains(scored[Len(scored)].S, scored[1].S)
    /\ \A i \in DOMAIN cohort : cohort[i].Strength = StrengthInferred
    /\ scored[1].score < scored[Len(scored)].score

(***************************************************************************)
(* C20: the bucketed scorer returns base + modifier clamped to [0.1, 1.0]: *)
(* base is 0.95 if any signal is explicit, otherwise 0.85 from 11 signals, *)
(* 0.70 from 6, 0.50 from 3 and 0.30 below; modifier is +0.05 if the most  *)
(* recent timestamp is at most RecentDays before now, -0.10 if it is       *)
(* StaleDays or more before now, and 0 otherwise.                          *)
(***************************************************************************)
C20_BucketedScore ==
    \A e \in Range(scored) :
        LET count == Len(e.S)
            base == IF \E i \in DOMAIN e.S : e.S[i].Strength = StrengthExplicit
                    THEN 95
                    ELSE IF count >= 11 THEN 85
                    ELSE IF count >= 6 THEN 70
                    ELSE IF count >= 3 THEN 50
                    ELSE 30
            days == now - MaxOf(Timestamps(e.S))
            modifier == IF days <= config.RecentDays THEN 5
                        ELSE IF days >= config.StaleDays THEN 0 - 10
                        ELSE 0
            raw == base + modifier
        IN  /\ e.S # <<>>
            /\ e.score = IF raw > 100 THEN 100 ELSE IF raw < 10 THEN 10 ELSE raw
            /\ e.score >= 10
            /\ e.score <= 100

\* eleven inferred signals, the latest exactly StaleDays old
C20_Witness ==
    /\ scored # <<>>
    /\ Len(cohort) >= 11
    /\ \A i \in DOMAIN cohort : cohort[i].Strength = StrengthInferred
    /\ now - MaxOf(Timestamps(cohort)) = config.StaleDays
    /\ scored[Len(scored)].S = cohort
    /\ scored[Len(scored)].score = 75

(***************************************************************************)
(* C13: adding one more explicit signal of a group, observed within the    *)
(* recent window, never decreases the confidence of the group's resulting  *)
(* Preference: a Preference for the group in the profile after the signal  *)
(* was added has at least the confidence of the one before.                *)
(***************************************************************************)
IsExplicitRecent(x) ==
    /\ x.Strength = StrengthExplicit
    /\ x.Timestamp <= now
    /\ now - x.Timestamp <= config.RecentDays

AddedId == <<before[1].added.Category, before[1].added.Title>>

C13_MonotonicConfidence ==
    (before # <<>> /\ returned # <<>> /\ IsExplicitRecent(before[1].added)) =>
        \A i \in PrefsFor(before[1].profile, AddedId) :
            \A j \in PrefsFor(Last, AddedId) :
                Last.Preferences[j].Confidence
                    >= before[1].profile.Preferences[i].Confidence

\* an all-inferred group at 0.35 is lifted to 1.00 by the explicit signal
C13_Witness ==
    /\ before # <<>>
    /\ returned # <<>>
    /\ IsExplicitRecent(before[1].added)
    /\ \E i \in PrefsFor(before[1].profile, AddedId) :
          \E j \in PrefsFor(Last, AddedId) :
              /\ before[1].profile.Preferences[i].Confidence = 35
              /\ Last.Preferences[j].Confidence = 100

(***************************************************************************)
(* C15: no Aggregate run ever executes under an invalid configuration      *)
(* (MinSignalCount < 1, ConflictThreshold outside (0,1], negative          *)
(* RecentDays or StaleDays): construction fails first.                     *)
(***************************************************************************)
ValidConfig(cfg) ==
    /\ cfg.MinSignalCount >= 1
    /\ cfg.ConflictThreshold > 0
    /\ cfg.ConflictThreshold <= 100
    /\ cfg.RecentDays >= 0
    /\ cfg.StaleDays >= 0

C15_NoRunUnderBadConfig == returned # <<>> => ValidConfig(config)

(***************************************************************************)
(* C18: two signals are placed in the same group if and only if their      *)
(* category and their title are both exactly equal, for any strings,       *)
(* including strings that contain the separator "::".                      *)
(***************************************************************************)
SameGroup(x, y) ==
    \E k \in DOMAIN grouped :
        x \in Range(grouped[k]) /\ y \in Range(grouped[k])

C18_GroupsByExactPair ==
    returned # <<>> =>
        \A i, j \in DOMAIN sigs :
            SameGroup(sigs[i], sigs[j])
                <=> (sigs[i].Category = sigs[j].Category
                     /\ sigs[i].Title = sigs[j].Title)

(***************************************************************************)
(* C21: the weighted-sum scorer returns the sum over the signals of        *)
(* RecencyWeight * recency + StrengthWeight * strength/4, plus             *)
(* FrequencyWeight * count, where recency is 0.1 from RecencyDecayDays on  *)
(* and 1.0 - 0.9 * daysSince/RecencyDecayDays before; for every signal     *)
(* timestamp the recency factor lies in [0.1, 1.0] and the strength factor *)
(* in [0.25, 1.0].  Recency is in thousandths, the score in 1/400000.      *)
(***************************************************************************)
RECURSIVE SumSeq(_)
SumSeq(s) == IF s = <<>> THEN 0 ELSE s[1] + SumSeq(Tail(s))

RecencyFactor(x) ==
    LET daysSince == now - x.Timestamp
        window == WeightedDefaultConfig.RecencyDecayDays
    IN  IF daysSince >= window THEN 100
        ELSE (1000 * window - 900 * daysSince) \div window

StrengthQuarters(x) == IF x.Strength = StrengthExplicit THEN 4 ELSE 1

C21_WeightedSum ==
    \A e \in Range(scored) :
        e.weighted =
            SumSeq([i \in DOMAIN e.S |->
                      WeightedDefaultConfig.RecencyWeight * RecencyFactor(e.S[i]) * 4
                      + WeightedDefaultConfig.StrengthWeight
                            * StrengthQuarters(e.S[i]) * 1000])
            + WeightedDefaultConfig.FrequencyWeight * Len(e.S) * 4000

C21_WeightedScore ==
    /\ C21_WeightedSum
    /\ \A e \in Range(scored) : \A i \in DOMAIN e.S :
          /\ recencyScore(WeightedDefaultConfig, now, e.S[i].Timestamp) >= 100
          /\ recencyScore(WeightedDefaultConfig, now, e.S[i].Timestamp) <= 1000
          /\ SignalStrength(e.S[i]) >= 1
          /\ SignalStrength(e.S[i]) <= 4

(***************************************************************************)
(* C22: one run uses one reference time: Aggregate leaves the Aggregator's *)
(* now and config unchanged, and in the profile it returns CreatedAt, the  *)
(* conflict test of every group, every Preference confidence and every     *)
(* ConflictValue strength are the ones computed at that now.               *)
(***************************************************************************)
OneNowProfile ==
    returned # <<>> =>
        /\ Last.CreatedAt = now
        /\ \A id \in GroupIdsOf(sigs) :
              Len(GroupOf(id)) >= config.MinSignalCount =>
                 (ConflictsFor(Last, id) # {} <=> RatioReached(GroupOf(id)))
        /\ \A i \in DOMAIN Last.Preferences :
              Last.Preferences[i].Confidence
                 = Score(GroupOf(<<Last.Preferences[i].Category,
                                   Last.Preferences[i].Title>>))
        /\ \A i \in DOMAIN Last.Conflicts : \A j \in DOMAIN Last.Conflicts[i].Values :
              Last.Conflicts[i].Values[j].Strength
                 = Score(CohortOf(GroupOf(<<Last.Conflicts[i].Category,
                                            Last.Conflicts[i].Title>>),
                                  Last.Conflicts[i].Values[j].Description))

FreshWorkingData ==
    returned # <<>> =>
        /\ Cardinality(DOMAIN grouped) = Cardinality(GroupIdsOf(sigs))
        /\ \A k \in DOMAIN grouped :
              /\ grouped[k] # <<>>
              /\ grouped[k]
                    = GroupOf(<<grouped[k][1].Category, grouped[k][1].Title>>)

C24_EmptyIsError ==
    \A e \in Range(scored) : e.S = <<>> => ~(e.score >= 10 /\ e.score <= 100)

(***************************************************************************)
(* C25: malformed signals are rejected at the producer boundary without    *)
(* failing the run: every Signal that Pipeline.Process collects or returns *)
(* has a category of the closed valid set and a non-empty title and        *)
(* description, and a run that dropped candidates still ends without an    *)
(* error, with the signals of the candidates that were well-formed.        *)
(***************************************************************************)
WellFormed(sig) ==
    /\ sig.Category \in {"code_style", "architecture", "tooling",
                         "version_control", "communication", "prohibition",
                         "stack"}
    /\ sig.Title # ""
    /\ sig.Description # ""

C25_ProducerBoundary ==
    pipe # <<>> =>
        /\ \A i \in DOMAIN pipe.results : WellFormed(pipe.results[i])
        /\ pipe.pc = "done" =>
              /\ ~pipe.out[1].err
              /\ \A i \in DOMAIN pipe.out[1].sigs : WellFormed(pipe.out[1].sigs[i])
              /\ pipe.out[1].sigs = pipe.results

\* the first candidate was dropped on the way, the second became a Signal
C25_Witness ==
    /\ pipe # <<>>
    /\ pipe.pc = "done"
    /\ pipe.stats.FilteredCount = 2
    /\ Len(pipe.out[1].sigs) = 1
    /\ pipe.out[1].sigs[1].Timestamp = pipe.entries[2].Timestamp
    /\ pipe.entries[1].Timestamp # pipe.entries[2].Timestamp

(***************************************************************************)
(* C28: Pipeline.Process isolates per-item failures: whatever the AI       *)
(* responses, Process returns no error, each stage's output is an          *)
(* order-preserving subsequence of its input with the timestamps carried   *)
(* unchanged, ExtractedCount <= ClassifiedCount <= FilteredCount <=        *)
(* UserEntries <= TotalEntries, and ExtractedCount is the number of        *)
(* returned signals.                                                       *)
(***************************************************************************)
RECURSIVE IsSubsequence(_, _)
IsSubsequence(a, b) ==
    IF a = <<>> THEN TRUE
    ELSE IF b = <<>> THEN FALSE
    ELSE IF a[1] = b[1] THEN IsSubsequence(Tail(a), Tail(b))
    ELSE IsSubsequence(a, Tail(b))

Stamps(s) == [i \in DOMAIN s |-> s[i].Timestamp]

C28_FailuresIsolated ==
    (pipe # <<>> /\ pipe.pc = "done") =>
        LET out == pipe.out[1]
        IN  /\ ~out.err
            /\ IsSubsequence(pipe.userEntries, pipe.entries)
            /\ IsSubsequence(Stamps(pipe.candidates), Stamps(pipe.userEntries))
            /\ IsSubsequence(Stamps(pipe.classified), Stamps(pipe.candidates))
            /\ IsSubsequence(Stamps(out.sigs), Stamps(pipe.classified))
            /\ out.stats.ExtractedCount <= out.stats.ClassifiedCount
            /\ out.stats.ClassifiedCount <= out.stats.FilteredCount
            /\ out.stats.FilteredCount <= out.stats.UserEntries
            /\ out.stats.UserEntries <= out.stats.TotalEntries
            /\ out.stats.TotalEntries = Len(pipe.entries)
            /\ out.stats.ExtractedCount = Len(out.sigs)

\* one classification failed and one extraction succeeded
C28_Witness ==
    /\ pipe # <<>>
    /\ pipe.pc = "done"
    /\ pipe.out[1].stats.FilteredCount = 2
    /\ pipe.out[1].stats.ClassifiedCount = 1
    /\ pipe.out[1].stats.ExtractedCount = 1
    /\ Len(pipe.out[1].sigs) = 1

(***************************************************************************)
(* C26: each group key (category, title) appears at most once across       *)
(* Preferences and Conflicts together: a group never yields both, there    *)
(* are never more Preferences plus Conflicts than groups, and every        *)
(* Conflict lists at least two values with pairwise-distinct descriptions. *)
(***************************************************************************)
C26_OneElementPerGroup ==
    \A p \in Returned :
        /\ \A id \in GroupIdsOf(sigs) :
              Cardinality(PrefsFor(p, id)) + Cardinality(ConflictsFor(p, id)) <= 1
        /\ \A i \in DOMAIN p.Preferences :
              <<p.Preferences[i].Category, p.Preferences[i].Title>>
                  \in GroupIdsOf(sigs)
        /\ \A i \in DOMAIN p.Conflicts :
              <<p.Conflicts[i].Category, p.Conflicts[i].Title>> \in GroupIdsOf(sigs)
        /\ Len(p.Preferences) + Len(p.Conflicts) <= Cardinality(GroupIdsOf(sigs))
        /\ \A i \in DOMAIN p.Conflicts :
              LET values == p.Conflicts[i].Values
              IN  /\ Len(values) >= 2
                  /\ \A j, k \in DOMAIN values :
                        j # k => values[j].Description # values[k].Description

\* two groups, one in conflict and one with a Preference
C26_Witness ==
    /\ returned # <<>>
    /\ Cardinality(GroupIdsOf(sigs)) = 2
    /\ Len(Last.Preferences) = 1
    /\ Len(Last.Conflicts) = 1

(***************************************************************************)
(* C27: evidence accounting: the SignalCounts of all Preferences plus the  *)
(* SignalCounts of all ConflictValues sum to at most AnalyzedMessages, and *)
(* to exactly AnalyzedMessages when MinSignalCount <= 1: no signal is      *)
(* counted twice and none is lost.                                         *)
(***************************************************************************)
CountedSignals(p) ==
    SumSeq([i \in DOMAIN p.Preferences |-> p.Preferences[i].SignalCount])
    + SumSeq([i \in DOMAIN p.Conflicts |->
                SumSeq([j \in DOMAIN p.Conflicts[i].Values |->
                          p.Conflicts[i].Values[j].SignalCount])])

C27_EvidenceAccounting ==
    \A p \in Returned :
        /\ p.AnalyzedMessages = Len(sigs)
        /\ CountedSignals(p) <= p.AnalyzedMessages
        /\ config.MinSignalCount <= 1 => CountedSignals(p) = p.AnalyzedMessages

\* a Preference over two cohorts and a Conflict account for three signals
C27_Witness ==
    /\ returned # <<>>
    /\ config.MinSignalCount <= 1
    /\ Len(sigs) >= 3
    /\ \E i \in DOMAIN Last.Preferences :
          Cardinality(DescsOf(GroupOf(<<Last.Preferences[i].Category,
                                        Last.Preferences[i].Title>>))) > 1

(***************************************************************************)
(* C29: DetectSignals is all-or-nothing: the entries are processed in      *)
(* consecutive batches of at most batchSize that cover every entry exactly *)
(* once; if the prompt build, the chat call or the output parse fails for  *)
(* any batch, it returns an error and no signals; on success the returned  *)
(* signals are sorted by timestamp ascending.                              *)
(***************************************************************************)
C29_AllOrNothing ==
    det # <<>> =>
        /\ \A k \in DOMAIN det.batches :
              /\ det.batches[k].from = IF k = 1 THEN 0 ELSE det.batches[k - 1].to
              /\ det.batches[k].to > det.batches[k].from
              /\ det.batches[k].to - det.batches[k].from <= det.batchSize
              /\ det.batches[k].to <= Len(det.aiEntries)
              /\ k < Len(det.batches) => ~det.batches[k].failed
        /\ det.pc = "done" =>
              LET out == det.out[1]
              IN  /\ out.err <=> \E k \in DOMAIN det.batches : det.batches[k].failed
                  /\ out.err => out.sigs = <<>>
                  /\ ~out.err =>
                        /\ det.aiEntries # <<>> =>
                              det.batches[Len(det.batches)].to = Len(det.aiEntries)
                        /\ Len(out.sigs) = Len(det.collected)
                        /\ \A i, j \in DOMAIN out.sigs :
                              i < j => out.sigs[i].Timestamp <= out.sigs[j].Timestamp

\* the second batch failed after the first had yielded signals
C29_Witness ==
    /\ det # <<>>
    /\ det.pc = "done"
    /\ det.out[1].err
    /\ Len(det.batches) = 2
    /\ det.collected # <<>>
    /\ det.out[1].sigs = <<>>

(***************************************************************************)
(* C30: GetDB initialises the database at most once under any interleaving *)
(* of concurrent callers: initializeDuckDB has run exactly once when a     *)
(* call returns, every call returns the same (instance, error) pair, and a *)
(* failed initialisation is never retried.                                 *)
(***************************************************************************)
AllReturns == UNION { Range(db.returns[c]) : c \in Callers }

C30_InitialisedOnce ==
    db # <<>> =>
        /\ db.initRuns <= 1
        /\ Cardinality(AllReturns) <= 1
        /\ \A r \in AllReturns :
              /\ db.initRuns = 1
              /\ r = [instance |-> db.dbInstance, err |-> db.dbErr]
              /\ r \in InitResults

\* the initialisation failed; one goroutine got the error twice and another
\* got the same error
C30_Witness ==
    /\ db # <<>>
    /\ db.initRuns = 1
    /\ db.dbErr # "nil"
    /\ \E c, d \in Callers :
          /\ c # d
          /\ Len(db.returns[c]) = 2
          /\ Len(db.returns[d]) >= 1

====
